---- MODULE Spec2Model ----
(***************************************************************************)
(* Model of the level-data extractor (fetchAndParseLevelData) and of its   *)
(* caller init.                                                            *)
(*                                                                         *)
(* Strings are sequences of tokens.  A token is a word that contains no    *)
(* white space (treated as an atom), a single white-space character, or a  *)
(* single character of a number (digit, comma, dot).  The regular          *)
(* expressions of the source only look at white space, at whole words      *)
(* bounded by white space or by number characters, and at number           *)
(* characters, so matching on tokens is matching on the characters.        *)
(*                                                                         *)
(* A DOM node is a record [tag, data, href, id, cls, attrs, value, kids];  *)
(* an absent attribute and an empty one are both the empty string.         *)
(* The parsed document is the sequence of the sibling nodes that hold the  *)
(* h3 headings (the "sequence of heading-delimited sections" the parser    *)
(* targets); every element below them is a tree.                           *)
(*                                                                         *)
(* A value that is used more than once is passed as the parameter of a     *)
(* helper operator, so that it is evaluated once.                          *)
(*                                                                         *)
(* other is a second invocation of fetchAndParseLevelData that runs while  *)
(* the first one is suspended at an await (SpecTwo).  viz is the           *)
(* GDVisualization object that init constructs from the parsed levels and  *)
(* handlers holds the variables its event handlers close over, with the    *)
(* environment they read: the touches on the screen, the pending timers    *)
(* and the width class of the window (SpecViz, SpecResize).  A handler     *)
(* runs to completion, so each event is one action.                        *)
(***************************************************************************)
EXTENDS Integers, Sequences, FiniteSets, TLC

\* ------------------------------------------------------------------ bounds
\* longest content of a generated section drawn from the full palette
MaxContent == 2
\* longest content of a generated section drawn from the core palette
MaxCore == 3
\* most sections in a generated multi-section document
MaxSections == 2
\* most runs of init in a behaviour of SpecAgain
MaxRuns == 2

\* the pointer positions are 0..MaxX, which is also the width of the chart
MaxX == 2

\* the identifiers of the touches are 1..MaxTouches
MaxTouches == 2

\* ----------------------------------------------------------------- strings
\* \s of the regular expressions, and what String.prototype.trim removes
WhiteSpace == {" ", "\n"}

\* the line terminators: what "." of a regular expression does not match
LineTerminators == {"\n"}

Digits == {"0", "1", "2", "3", "4", "5", "6", "7", "8", "9"}

\* the class [\d,.] of the difficulty pattern
NumChars == Digits \cup {",", "."}

DigitVal(c) ==
  CASE c = "0" -> 0 [] c = "1" -> 1 [] c = "2" -> 2 [] c = "3" -> 3
    [] c = "4" -> 4 [] c = "5" -> 5 [] c = "6" -> 6 [] c = "7" -> 7
    [] c = "8" -> 8 [] c = "9" -> 9

DigitChar(n) ==
  CASE n = 0 -> "0" [] n = 1 -> "1" [] n = 2 -> "2" [] n = 3 -> "3"
    [] n = 4 -> "4" [] n = 5 -> "5" [] n = 6 -> "6" [] n = 7 -> "7"
    [] n = 8 -> "8" [] n = 9 -> "9"

\* String.prototype.toLowerCase (and the i flag) on the words that have
\* upper-case letters in the documents of this model
toLowerCase(tok) ==
  CASE tok \in {"Difficulty", "DIFFICULTY"} -> "difficulty"
    [] tok \in {"Value:", "VALUE:"} -> "value:"
    [] tok \in {"By", "BY"} -> "by"
    [] tok = "YouTube" -> "youtube"
    [] tok = "GDBrowser" -> "gdbrowser"
    [] OTHER -> tok

LowerAll(s) == [k \in 1..Len(s) |-> toLowerCase(s[k])]

\* the words of this model that have the word `needle` as a substring
HasSubstring(tok, needle) ==
  \/ tok = needle
  \/ needle = "youtube" /\ tok = "youtube.com"
  \/ needle = "gdbrowser" /\ tok = "gdbrowser.com"

\* String.prototype.includes(needle), needle a single word
includes(s, needle) == \E k \in 1..Len(s) : HasSubstring(s[k], needle)

\* String.prototype.startsWith
startsWith(s, prefix) ==
  /\ Len(prefix) <= Len(s)
  /\ SubSeq(s, 1, Len(prefix)) = prefix

IsSubSeq(needle, s) ==
  \E k \in 0..(Len(s) - Len(needle)) : SubSeq(s, k + 1, k + Len(needle)) = needle

Min(S) == CHOOSE x \in S : \A y \in S : x <= y

Max(S) == CHOOSE x \in S : \A y \in S : y <= x

TrimTo(s, idx) == IF idx = {} THEN <<>> ELSE SubSeq(s, Min(idx), Max(idx))

\* String.prototype.trim
trim(s) == TrimTo(s, {k \in 1..Len(s) : s[k] \notin WhiteSpace})

FirstStop(stops, len) == IF stops = {} THEN len ELSE Min(stops) - 1

\* end of the longest run of tokens of class `cls` that starts at from (from - 1
\* when the run is empty)
RunEnd(s, from, cls) == FirstStop({k \in from..Len(s) : s[k] \notin cls}, Len(s))

RECURSIVE Concat(_)
Concat(ss) == IF ss = <<>> THEN <<>> ELSE Head(ss) \o Concat(Tail(ss))

Map(F(_), s) == [k \in 1..Len(s) |-> F(s[k])]

\* ---------------------------------------------------------------- optional
null == [isNull |-> TRUE, val |-> <<>>]

Some(v) == [isNull |-> FALSE, val |-> v]

\* --------------------------------------------------------------------- DOM
\* a text node
Text(s) ==
  [tag |-> "#text", data |-> s, href |-> <<>>, id |-> <<>>, cls |-> <<>>,
   attrs |-> <<>>, value |-> <<>>, kids |-> <<>>]

\* an element without attributes
El(tag, kids) ==
  [tag |-> tag, data |-> <<>>, href |-> <<>>, id |-> <<>>, cls |-> <<>>,
   attrs |-> <<>>, value |-> <<>>, kids |-> kids]

\* <a href=...>
Anchor(href, kids) == [El("A", kids) EXCEPT !.href = href]

\* markup that innerHTML = ... parses: written out again as it was read
Raw(markup) == [El("#raw", <<>>) EXCEPT !.data = markup]

\* Node.ELEMENT_NODE
IsElement(n) == n.tag \notin {"#text", "#raw"}

\* /^H[1-6]$/.test(element.tagName)
IsHeadingTag(tag) == tag \in {"H1", "H2", "H3", "H4", "H5", "H6"}

\* Element.localName, as outerHTML writes it
LocalName(tag) ==
  CASE tag = "P" -> "p" [] tag = "A" -> "a" [] tag = "H2" -> "h2"
    [] tag = "H3" -> "h3" [] tag = "SUP" -> "sup" [] tag = "IMG" -> "img"
    [] tag = "OL" -> "ol" [] tag = "LI" -> "li" [] tag = "DIV" -> "div"
    [] tag = "SECTION" -> "section" [] OTHER -> tag

\* Node.textContent
RECURSIVE textContent(_)
textContent(n) ==
  IF n.tag = "#text" THEN n.data
  ELSE Concat([k \in 1..Len(n.kids) |-> textContent(n.kids[k])])

\* the descendants of n in document order (n itself excluded)
RECURSIVE Descendants(_)
Descendants(n) ==
  Concat([k \in 1..Len(n.kids) |-> <<n.kids[k]>> \o Descendants(n.kids[k])])

IsAnchor(n) == n.tag = "A"

\* Element.querySelectorAll('a')
querySelectorAllA(n) == SelectSeq(Descendants(n), IsAnchor)

\* text as the HTML serializer escapes it
EscapeToken(tok) ==
  CASE tok = "&" -> "&amp;" [] tok = "<" -> "&lt;" [] tok = ">" -> "&gt;"
    [] OTHER -> tok

AttrMarkup(name, v) ==
  IF v = <<>> THEN <<>> ELSE <<" ", name, "=\"">> \o v \o <<"\"">>

RECURSIVE JoinAttrs(_)
JoinAttrs(names) ==
  IF names = <<>> THEN <<>>
  ELSE <<" ", Head(names), "=\"\"">> \o JoinAttrs(Tail(names))

RECURSIVE JoinWords(_)
JoinWords(ws) ==
  IF Len(ws) <= 1 THEN ws ELSE <<Head(ws), " ">> \o JoinWords(Tail(ws))

\* Element.outerHTML
RECURSIVE outerHTML(_)
outerHTML(n) ==
  IF n.tag = "#text" THEN Map(EscapeToken, n.data)
  ELSE IF n.tag = "#raw" THEN n.data
  ELSE <<"<", LocalName(n.tag)>>
       \o AttrMarkup("href", n.href) \o AttrMarkup("id", n.id)
       \o AttrMarkup("class", JoinWords(n.cls)) \o JoinAttrs(n.attrs)
       \o AttrMarkup("value", n.value) \o <<">">>
       \o (IF n.tag = "IMG" THEN <<>>
           ELSE Concat([k \in 1..Len(n.kids) |-> outerHTML(n.kids[k])])
                \o <<"</", LocalName(n.tag), ">">>)

\* the markup of a list of nodes, one after the other
MarkupOf(nodes) == Concat([k \in 1..Len(nodes) |-> outerHTML(nodes[k])])

\* Element.innerHTML
innerHTML(n) == MarkupOf(n.kids)

\* ------------------------------------------------------------------ numbers
\* a JavaScript number: mant / 10^exp (mant not a multiple of 10 unless exp = 0),
\* or NaN
NaN == [nan |-> TRUE, mant |-> 0, exp |-> 0]

RECURSIVE Num(_, _)
Num(mant, exp) ==
  IF exp > 0 /\ mant % 10 = 0 THEN Num(mant \div 10, exp - 1)
  ELSE [nan |-> FALSE, mant |-> mant, exp |-> exp]

RECURSIVE DigitsToNat(_)
DigitsToNat(ds) ==
  IF ds = <<>> THEN 0
  ELSE 10 * DigitsToNat(SubSeq(ds, 1, Len(ds) - 1)) + DigitVal(ds[Len(ds)])

RECURSIVE Pow10(_)
Pow10(k) == IF k = 0 THEN 1 ELSE 10 * Pow10(k - 1)

\* String(n) for a natural number
RECURSIVE NatToDigits(_)
NatToDigits(n) ==
  IF n < 10 THEN <<DigitChar(n)>>
  ELSE NatToDigits(n \div 10) \o <<DigitChar(n % 10)>>

IsNotComma(c) == c # ","

\* s.replace(/,/g, '')
RemoveCommas(s) == SelectSeq(s, IsNotComma)

\* the number written by the digits int, a dot and the digits frac; NaN when
\* there is no digit at all
Decimal(int, frac) ==
  IF int = <<>> /\ frac = <<>> THEN NaN
  ELSE Num(DigitsToNat(int) * Pow10(Len(frac)) + DigitsToNat(frac), Len(frac))

ParseFloatAfter(s, a) ==
  IF a + 1 <= Len(s) /\ s[a + 1] = "."
  THEN Decimal(SubSeq(s, 1, a), SubSeq(s, a + 2, RunEnd(s, a + 2, Digits)))
  ELSE Decimal(SubSeq(s, 1, a), <<>>)

\* parseFloat on a string of digits and dots: the longest prefix that is a
\* decimal literal (digits, then optionally a dot and digits), NaN when that
\* prefix has no digit
parseFloat(s) == ParseFloatAfter(s, RunEnd(s, 1, Digits))

\* parseInt(ds, 10) on a string of digits
parseInt(ds) == DigitsToNat(ds)

\* ------------------------------------------------------ the parser's patterns
ValueTokenAfter(text, k, w) ==
  IF w >= k + 1 /\ w + 1 <= Len(text) /\ toLowerCase(text[w + 1]) = "value:"
  THEN w + 1 ELSE 0

\* /Difficulty\s+value:/i matched at position k of text: the index of the
\* "value:" token, 0 when it does not match there
LabelAt(text, k) ==
  IF k > Len(text) \/ toLowerCase(text[k]) # "difficulty" THEN 0
  ELSE ValueTokenAfter(text, k, RunEnd(text, k + 1, WhiteSpace))

\* text.match(/Difficulty\s+value:/i)
labelMatch(text) == \E k \in 1..Len(text) : LabelAt(text, k) # 0

CaptureSpan(c, e) == IF e >= c THEN <<c, e>> ELSE <<0, 0>>

CaptureFrom(text, c) == CaptureSpan(c, RunEnd(text, c, NumChars))

CaptureAfterLabel(text, v) ==
  IF v = 0 THEN <<0, 0>> ELSE CaptureFrom(text, RunEnd(text, v + 1, WhiteSpace) + 1)

\* the capture ([\d,.]+) of /Difficulty\s+value:\s*([\d,.]+)/i matched at
\* position k of text: <<first, last>>, <<0, 0>> when it does not match there
CaptureAt(text, k) == CaptureAfterLabel(text, LabelAt(text, k))

CaptureText(text, c) == Some(SubSeq(text, c[1], c[2]))

FirstCapture(text, at) ==
  IF at = {} THEN null ELSE CaptureText(text, CaptureAt(text, Min(at)))

\* text.match(/Difficulty\s+value:\s*([\d,.]+)/i): the leftmost match
difficultyMatch(text) ==
  FirstCapture(text, {k \in 1..Len(text) : CaptureAt(text, k) # <<0, 0>>})

GroupTwoAt(t, j, m) ==
  IF /\ m > j + 1 /\ m <= Len(t)
     /\ \A x \in m..Len(t) : t[x] \notin LineTerminators
  THEN m ELSE 0

KeywordAt(t, k, j) ==
  IF /\ \A x \in 1..k : t[x] \notin LineTerminators
     /\ j > k + 1 /\ j <= Len(t) /\ toLowerCase(t[j]) \in {"by", "-"}
  THEN GroupTwoAt(t, j, RunEnd(t, j + 1, WhiteSpace) + 1) ELSE 0

\* /^(.+?)(?:\s+by\s+|\s+-\s+)(.+)$/i with group 1 being the first k tokens:
\* the index where group 2 starts, 0 when there is no such match
SeparatorAfter(t, k) == KeywordAt(t, k, RunEnd(t, k + 1, WhiteSpace) + 1)

SplitAt(t, k) == Some(<<SubSeq(t, 1, k), SubSeq(t, SeparatorAfter(t, k), Len(t))>>)

FirstSplit(t, at) == IF at = {} THEN null ELSE SplitAt(t, Min(at))

\* levelNameAndPublisher.match(/^(.+?)(?:\s+by\s+|\s+-\s+)(.+)$/i): the lazy
\* group 1 is the shortest prefix after which the rest matches
namePublisherMatch(t) == FirstSplit(t, {k \in 1..Len(t) : SeparatorAfter(t, k) # 0})

NameAndPublisherUnknown(levelNameAndPublisher, m) ==
  [name |-> IF m.isNull THEN levelNameAndPublisher ELSE trim(m.val[1]),
   publisher |-> IF m.isNull THEN <<"Unknown">> ELSE trim(m.val[2])]

NameAndPublisher(levelNameAndPublisher, m) ==
  [name |-> IF m.isNull THEN levelNameAndPublisher ELSE trim(m.val[1]),
   publisher |-> IF m.isNull THEN <<>> ELSE trim(m.val[2])]

SplitText(levelNameAndPublisher) ==
  NameAndPublisher(levelNameAndPublisher, namePublisherMatch(levelNameAndPublisher))

\* name and publisher of a heading
SplitHeading(h3) == SplitText(trim(textContent(h3)))

\* ------------------------------------------------- fetchAndParseLevelData
\* doc.querySelectorAll('h3'): the positions of the h3 elements in the document
h3Elements(d) ==
  LET isH3(p) == d[p].tag = "H3"
  IN  SelectSeq([p \in 1..Len(d) |-> p], isH3)

ContentSlice(d, h3, stops) ==
  SelectSeq(SubSeq(d, h3 + 1, IF stops = {} THEN Len(d) ELSE Min(stops) - 1), IsElement)

\* the while loop over h3.nextSibling: the elements after the heading at h3 up
\* to the element at nextH3 or any heading tag
ContentUntil(d, h3, nextH3) ==
  ContentSlice(d, h3, {p \in (h3 + 1)..Len(d) :
                         IsElement(d[p]) /\ (p = nextH3 \/ IsHeadingTag(d[p].tag))})

SiblingsOf(d, i, h3s) ==
  ContentUntil(d, h3s[i + 1], IF i < Len(h3s) - 1 THEN h3s[i + 2] ELSE 0)

\* allContent of heading i (counted from 0)
allContentOf(d, i) == SiblingsOf(d, i, h3Elements(d))

DifficultyOf(allContent, k) ==
  [found |-> TRUE,
   difficulty |-> parseFloat(RemoveCommas(difficultyMatch(textContent(allContent[k])).val)),
   difficultyElementIndex |-> k - 1]

FirstDifficultyDefaulted(allContent, hits) ==
  IF hits = {}
  THEN [found |-> TRUE, difficulty |-> Num(0, 0), difficultyElementIndex |-> -1]
  ELSE DifficultyOf(allContent, Min(hits))

FirstDifficulty(allContent, hits) ==
  IF hits = {}
  THEN [found |-> FALSE, difficulty |-> NaN, difficultyElementIndex |-> -1]
  ELSE DifficultyOf(allContent, Min(hits))

\* the loop that finds the difficulty value: the first element whose text
\* matches wins; found = FALSE stands for difficulty === null
FindDifficulty(allContent) ==
  FirstDifficulty(allContent,
                  {k \in 1..Len(allContent) :
                     ~difficultyMatch(textContent(allContent[k])).isNull})

IsYouTubeLink(href, linkText) ==
  includes(href, "youtube.com") \/ includes(href, "youtu.be") \/ includes(linkText, "youtube")

IsGDBrowserLink(href, linkText) ==
  includes(href, "gdbrowser.com") \/ includes(linkText, "gdbrowser")

\* the if / else if of the link loop
Classify(href, linkText, acc) ==
  IF IsYouTubeLink(href, linkText)
  THEN [acc EXCEPT !.youtubeUrl = Some(href), !.linksFound = TRUE]
  ELSE IF IsGDBrowserLink(href, linkText)
  THEN [acc EXCEPT !.gdBrowserUrl = Some(href), !.linksFound = TRUE]
  ELSE acc

\* if (idx === difficultyElementIndex && href) excludedHrefs.add(href)
Exclude(href, acc, inDifficultyElement) ==
  IF inDifficultyElement /\ href # <<>>
  THEN [acc EXCEPT !.excludedHrefs = @ \cup {href}]
  ELSE acc

ScanLink(link, acc, inDifficultyElement) ==
  Exclude(link.href, Classify(link.href, LowerAll(textContent(link)), acc),
          inDifficultyElement)

\* the loop over the links of one element
RECURSIVE ScanElementLinks(_, _, _)
ScanElementLinks(links, acc, inDifficultyElement) ==
  IF links = <<>> THEN acc
  ELSE ScanElementLinks(Tail(links), ScanLink(Head(links), acc, inDifficultyElement),
                        inDifficultyElement)

\* the loop that finds the YouTube and GDBrowser links, from element idx on
RECURSIVE ScanLinksFrom(_, _, _, _), ScanNext(_, _, _, _)
ScanLinksFrom(allContent, idx, acc, difficultyElementIndex) ==
  IF idx >= Len(allContent) THEN acc
  ELSE ScanNext(allContent, idx,
                ScanElementLinks(querySelectorAllA(allContent[idx + 1]), acc,
                                 idx = difficultyElementIndex),
                difficultyElementIndex)

ScanNextExhaustive(allContent, idx, acc, difficultyElementIndex) ==
  ScanLinksFrom(allContent, idx + 1, acc, difficultyElementIndex)

\* if (linksFound) break
ScanNext(allContent, idx, acc, difficultyElementIndex) ==
  IF acc.linksFound THEN acc
  ELSE ScanLinksFrom(allContent, idx + 1, acc, difficultyElementIndex)

ScanLinks(allContent, difficultyElementIndex) ==
  ScanLinksFrom(allContent, 0,
                [youtubeUrl |-> null, gdBrowserUrl |-> null, linksFound |-> FALSE,
                 excludedHrefs |-> {}],
                difficultyElementIndex)

IsCategoryHref(href) ==
  includes(href, "youtube.com") \/ includes(href, "youtu.be")
    \/ includes(href, "gdbrowser.com")

AnyCategoryHref(links) == \E k \in 1..Len(links) : IsCategoryHref(links[k].href)

\* the inner loop of the commentary start: some link of the element has a
\* YouTube or GDBrowser URL
HasCategoryHref(element) == AnyCategoryHref(querySelectorAllA(element))

StartAfterDifficulty(element, j, st) ==
  IF ~st.foundDifficulty /\ labelMatch(textContent(element))
  THEN [st EXCEPT !.foundDifficulty = TRUE, !.commentaryStartIndex = j + 1]
  ELSE st

StartAfterLinks(element, j, st) ==
  IF st.foundDifficulty /\ ~st.foundLinks /\ HasCategoryHref(element)
  THEN [st EXCEPT !.foundLinks = TRUE, !.commentaryStartIndex = j + 1]
  ELSE st

\* the loop that computes commentaryStartIndex, from element j on
RECURSIVE CommentaryStartFrom(_, _, _)
CommentaryStartFrom(allContent, j, st) ==
  IF j >= Len(allContent) THEN st.commentaryStartIndex
  ELSE CommentaryStartFrom(allContent, j + 1,
         StartAfterLinks(allContent[j + 1], j,
                         StartAfterDifficulty(allContent[j + 1], j, st)))

commentaryStartIndexOf(allContent) ==
  CommentaryStartFrom(allContent, 0,
                      [commentaryStartIndex |-> 0, foundDifficulty |-> FALSE,
                       foundLinks |-> FALSE])

\* clone.querySelectorAll('a').forEach(link => ... link.remove()) for the
\* links whose href is non-empty and in hrefs
RECURSIVE RemoveExcludedLinks(_, _), RemoveExcludedFrom(_, _)
RemoveExcludedLinks(n, hrefs) ==
  LET keep(c) == ~(c.tag = "A" /\ c.href # <<>> /\ c.href \in hrefs)
  IN  [n EXCEPT !.kids = RemoveExcludedFrom(SelectSeq(n.kids, keep), hrefs)]

RemoveExcludedFrom(kids, hrefs) ==
  [k \in 1..Len(kids) |-> RemoveExcludedLinks(kids[k], hrefs)]

AnyMedia(nodes) ==
  \E k \in 1..Len(nodes) : nodes[k].tag \in {"IMG", "BLOCKQUOTE", "UL", "OL"}

\* clone.querySelector('img, blockquote, ul, ol')
HasMedia(n) == AnyMedia(Descendants(n))

\* if (text && !text.match(/Difficulty\s+value:/i))
IsCommentaryText(text) == text # <<>> /\ ~labelMatch(text)

\* if (clone.textContent?.trim() || clone.querySelector(...)) push(clone)
KeepIfContent(clone) ==
  IF trim(textContent(clone)) # <<>> \/ HasMedia(clone) THEN <<clone>> ELSE <<>>

\* what one element adds to commentaryElements
CommentaryClone(element, excludedHrefs) ==
  IF IsCommentaryText(trim(textContent(element)))
  THEN KeepIfContent(RemoveExcludedLinks(element, excludedHrefs))
  ELSE <<>>

\* the loop that collects the commentary clones, from element j on
RECURSIVE CollectCommentary(_, _, _)
CollectCommentary(allContent, j, excludedHrefs) ==
  IF j >= Len(allContent) THEN <<>>
  ELSE IF IsHeadingTag(allContent[j + 1].tag) THEN <<>>
  ELSE CommentaryClone(allContent[j + 1], excludedHrefs)
       \o CollectCommentary(allContent, j + 1, excludedHrefs)

\* ---------------------------------------------------------------- footnotes
\* every node of the document, in document order
AllNodes(d) == Concat([p \in 1..Len(d) |-> <<d[p]>> \o Descendants(d[p])])

HasClass(n, c) == \E k \in 1..Len(n.cls) : n.cls[k] = c

HasAttr(n, a) == \E k \in 1..Len(n.attrs) : n.attrs[k] = a

\* 'section[data-footnotes], .footnotes'
IsFootnotesSection(n) ==
  \/ n.tag = "SECTION" /\ HasAttr(n, "data-footnotes")
  \/ IsElement(n) /\ HasClass(n, "footnotes")

FirstOrNone(found) == IF found = <<>> THEN <<>> ELSE <<found[1]>>

\* doc.querySelector('section[data-footnotes], .footnotes'): the section in a
\* list of one, the empty list for null
footnotesSectionOf(d) == FirstOrNone(SelectSeq(AllNodes(d), IsFootnotesSection))

\* querySelectorAll('ol > li[id]') below n, skipping the items whose id is empty
RECURSIVE FootnoteItems(_)
FootnoteItems(n) ==
  Concat([k \in 1..Len(n.kids) |->
            (IF n.tag = "OL" /\ n.kids[k].tag = "LI" /\ n.kids[k].id # <<>>
             THEN <<n.kids[k]>> ELSE <<>>)
            \o FootnoteItems(n.kids[k])])

\* 'a[data-footnote-backref], a.data-footnote-backref,
\*  a[href^="#user-content-fnref"], a[href^="#fnref"]'
IsBackref(n) ==
  /\ n.tag = "A"
  /\ \/ HasAttr(n, "data-footnote-backref")
     \/ HasClass(n, "data-footnote-backref")
     \/ startsWith(n.href, <<"#", "user-content-", "fnref">>)
     \/ startsWith(n.href, <<"#", "fnref">>)

IsNotBackref(n) == ~IsBackref(n)

\* backrefs.forEach(a => a.remove()) on the clone of a footnote item
RECURSIVE RemoveBackrefs(_), RemoveBackrefsFrom(_)
RemoveBackrefs(n) ==
  [n EXCEPT !.kids = RemoveBackrefsFrom(SelectSeq(n.kids, IsNotBackref))]

RemoveBackrefsFrom(kids) == [k \in 1..Len(kids) |-> RemoveBackrefs(kids[k])]

\* footnoteMap[id] = clone.innerHTML.trim()
FootnoteBody(li) == trim(innerHTML(RemoveBackrefs(li)))

LastWithId(items, id) == Max({k \in 1..Len(items) : items[k].id = id})

\* the own properties of footnoteMap, a later item with the same id
\* overwriting an earlier one
MapOfItems(items) ==
  [id \in {items[k].id : k \in 1..Len(items)} |->
     FootnoteBody(items[LastWithId(items, id)])]

ItemsOf(section) == IF section = <<>> THEN <<>> ELSE FootnoteItems(section[1])

footnoteMapOf(d) == MapOfItems(ItemsOf(footnotesSectionOf(d)))

\* the property names every object inherits from Object.prototype
ObjectPrototypeKeys == {<<"toString">>, <<"constructor">>, <<"valueOf">>}

\* String(Object.prototype[key]): what innerHTML receives for an inherited value
InheritedText(key) == <<"function", " ">> \o key \o <<"() { [native code] }">>

\* footnoteMap[refId]: an own property, else an inherited one, else undefined
FootnoteLookup(footnoteMap, refId) ==
  IF refId \in DOMAIN footnoteMap
  THEN [truthy |-> footnoteMap[refId] # <<>>, text |-> footnoteMap[refId]]
  ELSE IF refId \in ObjectPrototypeKeys
  THEN [truthy |-> TRUE, text |-> InheritedText(refId)]
  ELSE [truthy |-> FALSE, text |-> <<>>]

\* an anchor a[href^="#"] that the footnote pass replaces by its text:
\* if (refId && footnoteMap[refId])
IsResolvedReference(n, footnoteMap) ==
  /\ n.tag = "A"
  /\ startsWith(n.href, <<"#">>)
  /\ Tail(n.href) # <<>>
  /\ FootnoteLookup(footnoteMap, Tail(n.href)).truthy

\* parent.replaceChild(doc.createTextNode(a.textContent), a) for every such
\* anchor below el
RECURSIVE UnlinkFootnotes(_, _)
UnlinkFootnotes(n, footnoteMap) ==
  [n EXCEPT !.kids =
     [k \in 1..Len(n.kids) |->
        IF IsResolvedReference(n.kids[k], footnoteMap)
        THEN Text(textContent(n.kids[k]))
        ELSE UnlinkFootnotes(n.kids[k], footnoteMap)]]

UnlinkAll(elements, footnoteMap) ==
  [k \in 1..Len(elements) |-> UnlinkFootnotes(elements[k], footnoteMap)]

\* if (!referencedFootnoteIds.includes(refId)) referencedFootnoteIds.push(refId)
PushNew(list, x) ==
  IF \E k \in 1..Len(list) : list[k] = x THEN list ELSE Append(list, x)

RECURSIVE Distinct(_)
Distinct(s) ==
  IF s = <<>> THEN <<>>
  ELSE PushNew(Distinct(SubSeq(s, 1, Len(s) - 1)), s[Len(s)])

RefIdsOf(anchors) == [k \in 1..Len(anchors) |-> Tail(anchors[k].href)]

ResolvedAnchorsOf(el, footnoteMap) ==
  LET isRef(n) == IsResolvedReference(n, footnoteMap)
  IN  SelectSeq(Descendants(el), isRef)

\* referencedFootnoteIds: the ids of the replaced anchors, each once, in the
\* order of their first reference
referencedFootnoteIdsOf(commentaryElements, footnoteMap) ==
  Distinct(RefIdsOf(Concat([k \in 1..Len(commentaryElements) |->
                              ResolvedAnchorsOf(commentaryElements[k], footnoteMap)])))

LastNonDigit(nonDigits) == IF nonDigits = {} THEN 0 ELSE Max(nonDigits)

\* id.match(/(\d+)$/): the digits that end the id
TrailingDigits(id) ==
  SubSeq(id, LastNonDigit({k \in 1..Len(id) : id[k] \notin Digits}) + 1, Len(id))

\* li.setAttribute('value', String(parseInt(match[1], 10))) when the id ends
\* in digits
ValueAttr(ds) == IF ds = <<>> THEN <<>> ELSE NatToDigits(parseInt(ds))

\* the li built for one referenced footnote
FootnoteListItem(id, footnoteMap) ==
  [El("LI", <<Raw(FootnoteLookup(footnoteMap, id).text)>>) EXCEPT
     !.value = ValueAttr(TrailingDigits(id))]

\* the wrapper div.commentary-footnotes > ol appended to the commentary
footnotesWrapperOf(referencedFootnoteIds, footnoteMap) ==
  [El("DIV", <<El("OL", [k \in 1..Len(referencedFootnoteIds) |->
                            FootnoteListItem(referencedFootnoteIds[k], footnoteMap)])>>)
   EXCEPT !.cls = <<"commentary-footnotes">>]

\* --------------------------------------------------- one pass of the h3 loop
\* the locals of the loop body before anything is computed
NoLocals ==
  [allContent |-> <<>>, found |-> FALSE, difficulty |-> NaN,
   difficultyElementIndex |-> -1, name |-> <<>>, publisher |-> <<>>,
   youtubeUrl |-> null, gdBrowserUrl |-> null, excludedHrefs |-> {},
   commentaryStartIndex |-> 0, kept |-> <<>>, footnoteIds |-> {},
   referencedFootnoteIds |-> <<>>, commentaryElements |-> <<>>,
   commentaryHTML |-> <<>>]

WithHeading(l, np) == [l EXCEPT !.name = np.name, !.publisher = np.publisher]

\* name, publisher and allContent of heading i (counted from 0)
SectionOf(d, i) ==
  WithHeading([NoLocals EXCEPT !.allContent = allContentOf(d, i)],
              SplitHeading(d[h3Elements(d)[i + 1]]))

WithDifficulty(l, fd) ==
  [l EXCEPT !.found = fd.found, !.difficulty = fd.difficulty,
            !.difficultyElementIndex = fd.difficultyElementIndex]

DifficultyStep(l) == WithDifficulty(l, FindDifficulty(l.allContent))

WithLinks(l, links) ==
  [l EXCEPT !.youtubeUrl = links.youtubeUrl, !.gdBrowserUrl = links.gdBrowserUrl,
            !.excludedHrefs = links.excludedHrefs]

LinksStep(l) == WithLinks(l, ScanLinks(l.allContent, l.difficultyElementIndex))

CommentaryStep(l) ==
  [l EXCEPT !.kept = CollectCommentary(l.allContent, l.commentaryStartIndex,
                                       l.excludedHrefs)]

StartStep(l) ==
  [l EXCEPT !.commentaryStartIndex = commentaryStartIndexOf(l.allContent)]

\* if (referencedFootnoteIds.length > 0) ... commentaryElements.push(wrapper)
WithReferenced(l, footnoteMap, referenced) ==
  [l EXCEPT
     !.footnoteIds = DOMAIN footnoteMap,
     !.referencedFootnoteIds = referenced,
     !.commentaryElements =
       IF Len(referenced) > 0
       THEN UnlinkAll(l.kept, footnoteMap) \o <<footnotesWrapperOf(referenced, footnoteMap)>>
       ELSE UnlinkAll(l.kept, footnoteMap)]

FootnoteStep(l, footnoteMap) ==
  WithReferenced(l, footnoteMap, referencedFootnoteIdsOf(l.kept, footnoteMap))

\* commentaryElements.map(el => el.outerHTML).join('')
SerializeStep(l) == [l EXCEPT !.commentaryHTML = MarkupOf(l.commentaryElements)]

\* if (difficulty === null) continue, else the rest of the loop body
AfterDifficulty(d, l) ==
  IF ~l.found THEN l
  ELSE SerializeStep(FootnoteStep(CommentaryStep(StartStep(LinksStep(l))),
                                  footnoteMapOf(d)))

\* the body of the loop for heading i (counted from 0): the values of its
\* locals when it ends, by `continue` (found = FALSE) or by levels.push
LoopBody(d, i) == AfterDifficulty(d, DifficultyStep(SectionOf(d, i)))

\* the parser without footnote resolution: the kept clones are serialized as
\* they are
SerializePlain(l) ==
  [l EXCEPT !.commentaryElements = l.kept, !.commentaryHTML = MarkupOf(l.kept)]

AfterDifficultyPlain(l) ==
  IF ~l.found THEN l
  ELSE SerializePlain(CommentaryStep(StartStep(LinksStep(l))))

\* the body of its loop for heading i (counted from 0)
LoopBodyPlain(d, i) == AfterDifficultyPlain(DifficultyStep(SectionOf(d, i)))

\* the LevelData pushed for the locals l
LevelOf(l) ==
  [name |-> l.name, publisher |-> l.publisher, difficulty |-> l.difficulty,
   youtubeUrl |-> l.youtubeUrl, gdBrowserUrl |-> l.gdBrowserUrl,
   commentary |-> l.commentaryHTML]

\* levels.push(...)
PushFront(list, x) == <<x>> \o list

Push(list, x) == Append(list, x)

\* ------------------------------------------------------ documents (inputs)
Words(ws) == Text(JoinWords(ws))

YouTube1 == <<"https://", "youtube.com", "/watch1">>

YouTube2 == <<"https://", "youtu.be", "/watch2">>

GDBrowser1 == <<"https://", "gdbrowser.com", "/1">>

Elsewhere == <<"https://", "example.com", "/wiki">>

Unlabelled == <<"https://", "example.com", "/video">>

\* a difficulty line with thousands separators and decimals, a YouTube link
\* and another link
DiffLinked ==
  El("P", <<Text(<<"Difficulty", " ", "value:", " ", "1", ",", "2", "3", "4", ".", "5", " ">>),
            Anchor(YouTube1, <<Words(<<"YouTube">>)>>),
            Anchor(Elsewhere, <<Words(<<"source">>)>>)>>)

\* a difficulty line in other letter case, without white space before the number
DiffPlain == El("P", <<Text(<<"difficulty", " ", "VALUE:", "2", ".", "0">>)>>)

\* a label followed by number characters that hold no digit
DiffNoDigit == El("P", <<Text(<<"Difficulty", " ", "value:", " ", ".">>)>>)

\* a label followed by no number character
LabelOnly == El("P", <<Text(<<"Difficulty", "\n", "value:", " ", "TBD">>)>>)

Prose == El("P", <<Words(<<"Great", "level">>)>>)

\* a link with the URL of the link of DiffLinked
SameLink == El("P", <<Text(<<"See", " ">>), Anchor(YouTube1, <<Words(<<"replay">>)>>)>>)

\* links of both categories, the first category twice
TwoLinks ==
  El("P", <<Text(<<"Watch", " ">>), Anchor(YouTube2, <<Words(<<"video">>)>>),
            Text(<<" ">>), Anchor(GDBrowser1, <<Words(<<"GDBrowser">>)>>),
            Text(<<" ">>), Anchor(YouTube1, <<Words(<<"mirror">>)>>)>>)

GDLink == El("P", <<Text(<<"Try", " ">>), Anchor(GDBrowser1, <<Words(<<"it">>)>>)>>)

OnlyLink == El("P", <<Anchor(YouTube1, <<Words(<<"YouTube">>)>>)>>)

\* a link that only its text puts in a category
TextLink == El("P", <<Text(<<"Read", " ">>), Anchor(Unlabelled, <<Words(<<"YouTube">>)>>)>>)

OtherLink == El("P", <<Text(<<"Read", " ">>), Anchor(Elsewhere, <<Words(<<"wiki">>)>>)>>)

Picture == El("P", <<El("IMG", <<>>)>>)

FnRef(id, label) == El("SUP", <<Anchor(<<"#">> \o id, <<Words(<<label>>)>>)>>)

\* references to a numbered footnote (twice) and to a footnote without number
Footnoted ==
  El("P", <<Words(<<"Hard">>), FnRef(<<"fn", "0", "1">>, "a"), Text(<<" ", "R", "&", "D">>),
            FnRef(<<"note">>, "b"), FnRef(<<"fn", "0", "1">>, "c")>>)

\* references to a footnote whose item holds only a backref, to no footnote,
\* and to a name that every object inherits
OddRefs ==
  El("P", <<Words(<<"Odd">>), FnRef(<<"fn", "2">>, "e"), FnRef(<<"nope">>, "x"),
            FnRef(<<"toString">>, "t")>>)

Subheading == El("H2", <<Words(<<"Notes">>)>>)

Blank == Text(<<"\n">>)

Backref(href) == [Anchor(href, <<Words(<<"back">>)>>) EXCEPT !.attrs = <<"data-footnote-backref">>]

\* the footnote container of the document
FootnotesSection ==
  [El("SECTION",
      <<[El("H2", <<Words(<<"Footnotes">>)>>) EXCEPT !.cls = <<"sr-only">>],
        El("OL",
          <<[El("LI", <<El("P", <<Text(<<"Note", " ", "one", " ">>),
                                   Anchor(<<"#", "fnref", "1">>, <<Words(<<"up">>)>>)>>)>>)
               EXCEPT !.id = <<"fn", "0", "1">>],
            [El("LI", <<Text(<<" ">>), Backref(<<"#", "ref", "2">>)>>)
               EXCEPT !.id = <<"fn", "2">>],
            [El("LI", <<Words(<<"Bare">>)>>) EXCEPT !.id = <<"note">>]>>)>>)
   EXCEPT !.attrs = <<"data-footnotes">>, !.cls = <<"footnotes">>]

FullPalette ==
  {DiffLinked, DiffPlain, DiffNoDigit, LabelOnly, Prose, SameLink, TwoLinks, GDLink,
   OnlyLink, TextLink, OtherLink, Picture, Footnoted, OddRefs, Subheading, Blank}

CorePalette == {DiffLinked, DiffPlain, GDLink, SameLink, Prose}

\* the sequences over S of length at most n
RECURSIVE SeqsUpTo(_, _)
SeqsUpTo(S, n) ==
  IF n = 0 THEN {<<>>}
  ELSE LET shorter == SeqsUpTo(S, n - 1)
       IN  shorter \cup {Append(s, x) : s \in {t \in shorter : Len(t) = n - 1}, x \in S}

Heading(text) == El("H3", <<Text(text)>>)

StandardHeading == Heading(<<"Level", " ", "Alpha", " ", "by", " ", "Coder1">>)

\* heading texts: padding, title, separator, attribution
HeadingTexts ==
  {pad \o left \o mid \o right \o pad :
     pad \in {<<>>, <<"\n", " ">>},
     left \in {<<>>, <<"Level", " ", "X">>, <<"Level", "\n", "X">>},
     mid \in {<<>>, <<" ", "by", " ">>, <<" ", "BY", " ", " ">>, <<" ", "-", " ">>,
              <<"\n", "by", "\n">>, <<" ", "by">>},
     right \in {<<>>, <<"Jane">>, <<"Jane", " ", "-", " ", "Joe">>, <<"Jane", "\n", "Doe">>}}

\* one section with every heading text
HeadingDocuments == {<<Heading(t), DiffPlain>> : t \in HeadingTexts}

\* one section with every content, followed or not by the footnote container
ContentDocuments ==
  {<<StandardHeading>> \o content \o tail :
     content \in SeqsUpTo(FullPalette, MaxContent) \cup SeqsUpTo(CorePalette, MaxCore),
     tail \in {<<>>, <<FootnotesSection>>}}

\* documents of several sections (none included)
SectionChoices ==
  {<<Heading(t)>> \o content :
     t \in {<<"Level", " ", "X", " ", "-", " ", "Jane">>, <<"Beta">>},
     content \in {<<DiffPlain>>, <<Prose>>, <<DiffLinked, SameLink>>}}

SectionDocuments ==
  {<<Prose>> \o Concat(ss) : ss \in SeqsUpTo(SectionChoices, MaxSections)}

Documents == HeadingDocuments \cup ContentDocuments \cup SectionDocuments

\* ------------------------------------------------------ the visualization
\* the fields of a GDVisualization as their initializers leave them, and what
\* the elements it creates show: panel is the index of the record the details
\* panel renders (-1 for the empty panel), longPressTimer is "null", "pending"
\* (the identifier of a timeout that has not run) or "stale" (the identifier
\* of one that has), pressX the clientX the pending timeout closes over,
\* animated whether the last render used transitions
NoViz ==
  [constructed |-> FALSE, visibleLevels |-> 1, selectedLevelIndex |-> 0,
   isMobile |-> FALSE, isResizing |-> FALSE, isSelecting |-> FALSE,
   longPressTimer |-> "null", pressX |-> 0, lineShown |-> FALSE, panel |-> -1,
   xDomain |-> <<>>, backDisabled |-> FALSE, forwardDisabled |-> FALSE,
   backDimmed |-> FALSE, forwardDimmed |-> FALSE, animated |-> FALSE]

\* let activeTouchId = null, let mouseDown = false, let resizeTimeout = null
\* ("null", "pending" or "stale", as longPressTimer), and around them the
\* number of resize timeouts that have not run, the touches on the chart, and
\* the window being at most 768 wide
NoHandlers ==
  [activeTouchId |-> null, mouseDown |-> FALSE, resizeTimeout |-> "null",
   resizeTimers |-> 0, touches |-> <<>>, narrow |-> FALSE]

ClientXs == 0..MaxX

\* this.width, in the unit of the pointer positions
Width == MaxX

Abs(x) == IF x < 0 THEN -x ELSE x

\* this.data.slice(0, this.visibleLevels).map(d => d.name), a name that
\* occurs again being left out as the domain of a band scale leaves it out
RECURSIVE DomainOf(_, _)
DomainOf(data, n) ==
  IF n = 0 THEN <<>> ELSE PushNew(DomainOf(data, n - 1), data[n].name)

\* this.backButton.disabled = ..., this.forwardButton.disabled = ..., and the
\* opacity and cursor that follow them
UpdateNavigationButtonsStrict(v, length) ==
  [v EXCEPT !.backDisabled = v.visibleLevels < 1,
            !.forwardDisabled = v.visibleLevels > length,
            !.backDimmed = v.visibleLevels < 1,
            !.forwardDimmed = v.visibleLevels > length]

updateNavigationButtons(v, length) ==
  [v EXCEPT !.backDisabled = v.visibleLevels <= 1,
            !.forwardDisabled = v.visibleLevels >= length,
            !.backDimmed = v.visibleLevels <= 1,
            !.forwardDimmed = v.visibleLevels >= length]

\* the buttons get their style again, opacity and cursor from their disabled
\* state, which is kept
updateNavigationButtonsPosition(v) ==
  [v EXCEPT !.backDimmed = v.backDisabled, !.forwardDimmed = v.forwardDisabled]

\* update(): the domain of the x scale, transitions or not, the details
\* panel, the buttons, the selection line
update(v, data) ==
  updateNavigationButtons(
    [v EXCEPT !.xDomain = DomainOf(data, Min({v.visibleLevels, Len(data)})),
              !.animated = ~v.isResizing,
              !.panel = IF v.selectedLevelIndex < Len(data)
                        THEN v.selectedLevelIndex ELSE @,
              !.lineShown = v.isSelecting /\ @],
    Len(data))

\* new GDVisualization({container, data}) in a window that is narrow or not
Constructed(data, narrow) ==
  update(updateNavigationButtonsPosition(
           [NoViz EXCEPT !.constructed = TRUE, !.isMobile = narrow,
                         !.backDisabled = TRUE]),
         data)

GoForwardUnguarded(v, data) ==
  update([v EXCEPT !.visibleLevels = @ + 1, !.selectedLevelIndex = v.visibleLevels], data)

goForward(v, data) ==
  IF v.visibleLevels < Len(data)
  THEN update([v EXCEPT !.visibleLevels = @ + 1, !.selectedLevelIndex = v.visibleLevels],
              data)
  ELSE v

goBack(v, data) ==
  IF v.visibleLevels > 1
  THEN update([v EXCEPT !.visibleLevels = @ - 1, !.selectedLevelIndex = v.visibleLevels - 2],
              data)
  ELSE v

\* clientX - rect.left - this.margin.left: the left margin is smaller on
\* mobile, here by one unit of the pointer positions
clientXToChartX(v, clientX) == clientX - (IF v.isMobile THEN 0 ELSE 1)

PositionIn(domain, name) == Min({k \in 1..Len(domain) : domain[k] = name}) - 1

\* (this.xScale(d.name) || 0) + bw / 2, times 5 * domain.length + 1: with the
\* padding 0.2 the step is width / (n + 0.2), the first band starts at 0.2
\* steps and a band is 0.8 steps wide
BandCentre(domain, name) ==
  IF \E k \in 1..Len(domain) : domain[k] = name
  THEN Width * (5 * PositionIn(domain, name) + 3)
  ELSE Width * 2

\* Math.abs(start - x), at the same scale
PointerDistance(v, name, x) ==
  Abs(BandCentre(v.xDomain, name) - x * (5 * Len(v.xDomain) + 1))

\* if (dist < minDist) { minDist = dist; nearest = this.data.indexOf(d) },
\* minDist = -1 standing for Infinity
CloserOf(best, k, dist) ==
  IF best.minDist < 0 \/ dist < best.minDist
  THEN [nearest |-> k, minDist |-> dist] ELSE best

RECURSIVE NearestFrom(_, _, _, _, _)
NearestFrom(v, data, x, k, best) ==
  IF k >= Min({v.visibleLevels, Len(data)}) THEN best.nearest
  ELSE NearestFrom(v, data, x, k + 1,
                   CloserOf(best, k, PointerDistance(v, data[k + 1].name, x)))

XToNearestOfAll(v, data, x) ==
  NearestFrom([v EXCEPT !.visibleLevels = Len(data)], data, x, 0,
              [nearest |-> 0, minDist |-> -1])

\* xToNearestIndex(x): the loop over the revealed records
xToNearestIndex(v, data, x) ==
  NearestFrom(v, data, x, 0, [nearest |-> 0, minDist |-> -1])

SelectOnly(v, idx) == [v EXCEPT !.selectedLevelIndex = idx]

\* this.selectedLevelIndex = idx; this.updateDetailsPanel(this.data[idx])
Select(v, idx) == [v EXCEPT !.selectedLevelIndex = idx, !.panel = idx]

\* startPress: the timeout is cleared and set again
startPress(v, clientX) == [v EXCEPT !.longPressTimer = "pending", !.pressX = clientX]

\* the callback of the long-press timeout
longPress(v, data) ==
  Select([v EXCEPT !.isSelecting = TRUE, !.lineShown = TRUE,
                   !.longPressTimer = "stale", !.pressX = 0],
         xToNearestIndex(v, data, clientXToChartX(v, v.pressX)))

movePress(v, data, clientX) ==
  IF ~v.isSelecting THEN v
  ELSE Select(v, xToNearestIndex(v, data, clientXToChartX(v, clientX)))

EndPressKeepsTimer(v) ==
  [v EXCEPT !.isSelecting = FALSE, !.lineShown = IF v.isSelecting THEN FALSE ELSE @]

\* endPress: the timeout is cleared, selection mode is left
endPress(v) ==
  [v EXCEPT !.longPressTimer = "null", !.pressX = 0, !.isSelecting = FALSE,
            !.lineShown = IF v.isSelecting THEN FALSE ELSE @]

\* if (!this.isSelecting && this.longPressTimer) clearTimeout, null
cancelOnMove(v) ==
  IF ~v.isSelecting /\ v.longPressTimer # "null"
  THEN [v EXCEPT !.longPressTimer = "null", !.pressX = 0] ELSE v

IsIn(s, x) == \E k \in 1..Len(s) : s[k] = x

\* the touchmove listener: the touch whose identifier is activeTouchId, at
\* clientX
touchmove(v, h, data, clientX) ==
  IF h.activeTouchId.isNull \/ ~IsIn(h.touches, h.activeTouchId.val) THEN v
  ELSE movePress(cancelOnMove(v), data, clientX)

\* -------------------------------------------------------------------- state
VARIABLES
  source,       \* the document the server holds at BLOG_POST_URL
  appPresent,   \* whether the page has the #app container
  pc,           \* where init and fetchAndParseLevelData stand
  response,     \* how the fetch went: "none", "ok", "notok" (a status that is
                \* not a success), "rejected" or "unreadable" (no body)
  doc,          \* the parsed document
  i,            \* the index of the h3 loop
  levels,       \* the list fetchAndParseLevelData builds
  levelSrc,     \* for each level, the value of i when it was pushed
  locals,       \* the locals of the loop body after its last pass
  error,        \* the error thrown, null when none
  fetches,      \* the number of calls of fetch in this run
  errors,       \* the number of errors thrown in this run
  appView,      \* what the #app container shows
  shownMessage, \* the message of the error panel
  vizData,      \* the data the visualization was constructed with
  run,          \* the number of the current run of init
  prevLevels,   \* what fetchAndParseLevelData returned in the previous run
  other,        \* a second invocation of fetchAndParseLevelData: its position,
                \* its document and its list
  viz,          \* the GDVisualization object: its fields and the elements it made
  handlers      \* the variables its event handlers close over, and the pointers

vars ==
  <<source, appPresent, pc, response, doc, i, levels, levelSrc, locals, error,
    fetches, errors, appView, shownMessage, vizData, run, prevLevels, other, viz,
    handlers>>

\* what init and its call of fetchAndParseLevelData never touch before the
\* visualization is constructed
elsewhere == <<other, viz, handlers>>

callVars == <<response, doc, i, levels, levelSrc, locals>>

viewVars == <<appView, shownMessage, vizData>>

\* the second invocation before it is called
NoCall == [pc |-> "idle", doc |-> <<>>, levels |-> <<>>, error |-> null,
           startedAt |-> "never", returnedAt |-> "never"]

Init ==
  /\ source \in Documents
  /\ appPresent \in BOOLEAN
  /\ pc = "init"
  /\ response = "none"
  /\ doc = <<>>
  /\ i = 0
  /\ levels = <<>>
  /\ levelSrc = <<>>
  /\ locals = NoLocals
  /\ error = null
  /\ fetches = 0
  /\ errors = 0
  /\ appView = "empty"
  /\ shownMessage = <<>>
  /\ vizData = <<>>
  /\ run = 1
  /\ prevLevels = null
  /\ other = NoCall
  /\ viz = NoViz
  /\ handlers = NoHandlers

\* throw new Error(message)
Throw(message) ==
  /\ error' = Some(message)
  /\ errors' = errors + 1
  /\ pc' = "thrown"

\* init up to its await: the container is looked up and fetchAndParseLevelData
\* is called, which calls fetch
InitStart ==
  /\ pc = "init"
  /\ IF appPresent
     THEN /\ fetches' = fetches + 1
          /\ pc' = "fetch"
          /\ UNCHANGED <<error, errors>>
     ELSE /\ Throw(<<"App container not found">>)
          /\ UNCHANGED fetches
  /\ UNCHANGED <<elsewhere, source, appPresent, callVars, viewVars, run, prevLevels>>

StatusTexts == {<<"Not Found">>, <<"Service Unavailable">>}

\* fetch resolves with a success status: response.text() is called
FetchOk ==
  /\ pc = "fetch"
  /\ response' = "ok"
  /\ pc' = "text"
  /\ UNCHANGED <<elsewhere, source, appPresent, doc, i, levels, levelSrc, locals, error,
                 fetches, errors, viewVars, run, prevLevels>>

\* fetch resolves with another status: the function throws
FetchNotOk ==
  /\ pc = "fetch"
  /\ \E statusText \in StatusTexts :
       Throw(<<"Failed to fetch blog post: ">> \o statusText)
  /\ response' = "notok"
  /\ UNCHANGED <<elsewhere, source, appPresent, doc, i, levels, levelSrc, locals, fetches,
                 viewVars, run, prevLevels>>

\* fetch rejects (no response at all): await throws
FetchReject ==
  /\ pc = "fetch"
  /\ Throw(<<"Failed to fetch">>)
  /\ response' = "rejected"
  /\ UNCHANGED <<elsewhere, source, appPresent, doc, i, levels, levelSrc, locals, fetches,
                 viewVars, run, prevLevels>>

KeepLevels(old) == old

\* const levels: LevelData[] = []
NewLevels(old) == <<>>

TextOkParseError ==
  /\ pc = "text"
  /\ Throw(<<"Invalid markup">>)
  /\ UNCHANGED <<elsewhere, source, appPresent, callVars, fetches, viewVars, run, prevLevels>>

\* response.text() resolves: the markup is parsed and the loop begins
TextOk ==
  /\ pc = "text"
  /\ doc' = source
  /\ levels' = NewLevels(levels)
  /\ levelSrc' = NewLevels(levelSrc)
  /\ i' = 0
  /\ pc' = "loop"
  /\ UNCHANGED <<elsewhere, source, appPresent, response, locals, error, fetches, errors,
                 viewVars, run, prevLevels>>

\* response.text() rejects (the body cannot be read): await throws
TextReject ==
  /\ pc = "text"
  /\ Throw(<<"Failed to read the response body">>)
  /\ response' = "unreadable"
  /\ UNCHANGED <<elsewhere, source, appPresent, doc, i, levels, levelSrc, locals, fetches,
                 viewVars, run, prevLevels>>

ElementStripped(element, excludedHrefs) == RemoveExcludedLinks(element, excludedHrefs)

\* const clone = element.cloneNode(true): what a pass removes or replaces, it
\* removes from or replaces in a clone; the element of the document is left
\* as it was parsed
ElementAfterClone(element, excludedHrefs) == element

\* the document after a pass with the locals l
DocumentAfter(d, l) ==
  [p \in 1..Len(d) |-> ElementAfterClone(d[p], l.excludedHrefs)]

\* the end of a pass with the locals l: continue, or levels.push
EndPass(l) ==
  /\ locals' = l
  /\ doc' = DocumentAfter(doc, l)
  /\ levels' = IF l.found THEN Push(levels, LevelOf(l)) ELSE levels
  /\ levelSrc' = IF l.found THEN Push(levelSrc, i) ELSE levelSrc

\* one pass of the loop over the h3 elements
Iterate ==
  /\ pc = "loop"
  /\ i < Len(h3Elements(doc))
  /\ EndPass(LoopBody(doc, i))
  /\ i' = i + 1
  /\ UNCHANGED <<elsewhere, source, appPresent, pc, response, error, fetches, errors,
                 viewVars, run, prevLevels>>

\* return levels
Return ==
  /\ pc = "loop"
  /\ i >= Len(h3Elements(doc))
  /\ pc' = "returned"
  /\ UNCHANGED <<elsewhere, source, appPresent, callVars, error, fetches, errors, viewVars,
                 run, prevLevels>>

\* init after its await: the empty list gives a notice, any other list the
\* visualization
InitReceive ==
  /\ pc = "returned"
  /\ IF Len(levels) = 0
     THEN appView' = "nodata" /\ UNCHANGED <<vizData, viz>>
     ELSE /\ appView' = "viz"
          /\ vizData' = levels
          /\ viz' = Constructed(levels, handlers.narrow)
  /\ pc' = "done"
  /\ UNCHANGED <<other, handlers, source, appPresent, callVars, error, fetches,
                 errors, shownMessage, run, prevLevels>>

UnknownErrorPanel(e) == <<"Unknown error occurred">>

\* what the catch block of init writes for the error e
ErrorPanel(e) == e.val

\* the catch block of init
InitCatch ==
  /\ pc = "thrown"
  /\ IF appPresent
     THEN appView' = "error" /\ shownMessage' = ErrorPanel(error)
     ELSE UNCHANGED <<appView, shownMessage>>
  /\ pc' = "done"
  /\ UNCHANGED <<elsewhere, source, appPresent, callVars, error, fetches, errors, vizData,
                 run, prevLevels>>

\* the page is loaded again with the same source, and init runs again. The
\* view and the locals of the earlier call are gone; levels keeps its last
\* value until the new call creates its list.
RunAgain ==
  /\ pc = "done"
  /\ run < MaxRuns
  /\ run' = run + 1
  /\ prevLevels' = IF error.isNull THEN Some(levels) ELSE null
  /\ pc' = "init"
  /\ response' = "none"
  /\ doc' = <<>>
  /\ i' = 0
  /\ locals' = NoLocals
  /\ error' = null
  /\ fetches' = 0
  /\ errors' = 0
  /\ appView' = "empty"
  /\ shownMessage' = <<>>
  /\ vizData' = <<>>
  /\ other' = NoCall
  /\ viz' = NoViz
  /\ handlers' = NoHandlers
  /\ UNCHANGED <<source, appPresent, levels, levelSrc>>

Next ==
  \/ InitStart
  \/ FetchOk
  \/ FetchNotOk
  \/ FetchReject
  \/ TextOk
  \/ TextReject
  \/ Iterate
  \/ Return
  \/ InitReceive
  \/ InitCatch

Spec == Init /\ [][Next]_vars

NextAgain == Next \/ RunAgain

SpecAgain == Init /\ [][NextAgain]_vars

\* ------------------------------------------------- a second invocation
\* levels after the pass that ended with the locals l
AfterPass(list, l) == IF l.found THEN Push(list, LevelOf(l)) ELSE list

\* the for loop over the h3 elements of d from heading i on, as one step: the
\* list it leaves
RECURSIVE LoopFrom(_, _, _)
LoopFrom(d, i0, list) ==
  IF i0 >= Len(h3Elements(d)) THEN list
  ELSE LoopFrom(d, i0 + 1, AfterPass(list, LoopBody(d, i0)))

SharedList(own, theirs) == theirs

\* const levels: LevelData[] = [] is a local of the call: the list a call
\* pushes to is its own, whatever list another call holds
OwnList(own, theirs) == own

\* what the code of a call runs between two awaits cannot be interleaved with
\* the code of another call: a call runs while no other is inside its loop
Suspended == pc \notin {"init", "loop"}

\* another caller calls fetchAndParseLevelData: fetch is called
OtherStart ==
  /\ other.pc = "idle"
  /\ Suspended
  /\ other' = [other EXCEPT !.pc = "fetch", !.startedAt = pc]
  /\ UNCHANGED <<source, appPresent, pc, callVars, error, fetches, errors, viewVars,
                 run, prevLevels, viz, handlers>>

\* its fetch resolves with a success status
OtherFetchOk ==
  /\ other.pc = "fetch"
  /\ Suspended
  /\ other' = [other EXCEPT !.pc = "text"]
  /\ UNCHANGED <<source, appPresent, pc, callVars, error, fetches, errors, viewVars,
                 run, prevLevels, viz, handlers>>

\* its fetch resolves with another status, or rejects: the call throws
OtherFetchFails ==
  /\ other.pc = "fetch"
  /\ Suspended
  /\ \E message \in {<<"Failed to fetch blog post: ">> \o s : s \in StatusTexts}
                    \cup {<<"Failed to fetch">>} :
       other' = [other EXCEPT !.pc = "thrown", !.error = Some(message),
                              !.returnedAt = pc]
  /\ UNCHANGED <<source, appPresent, pc, callVars, error, fetches, errors, viewVars,
                 run, prevLevels, viz, handlers>>

\* its response.text() resolves: the markup is parsed, the loop runs to its
\* end and the call returns its list
OtherTextOk ==
  /\ other.pc = "text"
  /\ Suspended
  /\ other' = [other EXCEPT !.pc = "returned", !.doc = source,
                             !.levels = LoopFrom(source, 0, OwnList(<<>>, levels)),
                             !.returnedAt = pc]
  /\ UNCHANGED <<source, appPresent, pc, callVars, error, fetches, errors, viewVars,
                 run, prevLevels, viz, handlers>>

\* its response.text() rejects
OtherTextReject ==
  /\ other.pc = "text"
  /\ Suspended
  /\ other' = [other EXCEPT !.pc = "thrown",
                             !.error = Some(<<"Failed to read the response body">>),
                             !.returnedAt = pc]
  /\ UNCHANGED <<source, appPresent, pc, callVars, error, fetches, errors, viewVars,
                 run, prevLevels, viz, handlers>>

\* the pages on which two calls are followed: sections with and without
\* difficulty line
TwoCallChoices ==
  {<<Heading(<<"Level", " ", "X", " ", "-", " ", "Jane">>), DiffPlain>>,
   <<Heading(<<"Beta">>), Prose>>,
   <<Heading(<<"Beta">>), DiffLinked, SameLink>>}

TwoCallDocuments ==
  {<<Prose>> \o Concat(ss) : ss \in SeqsUpTo(TwoCallChoices, MaxSections)}

InitTwo == Init /\ source \in TwoCallDocuments /\ appPresent

NextTwo ==
  \/ Next
  \/ OtherStart
  \/ OtherFetchOk
  \/ OtherFetchFails
  \/ OtherTextOk
  \/ OtherTextReject

SpecTwo == InitTwo /\ [][NextTwo]_vars

\* ------------------------------------------- the events of the visualization
\* what the visualization and its handlers leave alone
pageVars ==
  <<source, appPresent, pc, callVars, error, fetches, errors, viewVars, run,
    prevLevels, other>>

\* a click on the Forward button
GoForward ==
  /\ viz.constructed
  /\ viz' = goForward(viz, vizData)
  /\ UNCHANGED <<pageVars, handlers>>

\* a click on the Back button
GoBack ==
  /\ viz.constructed
  /\ viz' = goBack(viz, vizData)
  /\ UNCHANGED <<pageVars, handlers>>

\* a click on the click area of a revealed bar
ClickArea ==
  /\ viz.constructed
  /\ \E k \in 0..(viz.visibleLevels - 1) : viz' = Select(viz, k)
  /\ UNCHANGED <<pageVars, handlers>>

\* a click on a label of the x axis (they are hidden on mobile): the first
\* revealed record with the name of the label
ClickLabel ==
  /\ viz.constructed
  /\ ~viz.isMobile
  /\ \E k \in 1..Len(viz.xDomain) :
       viz' = Select(viz, Min({j \in 0..(viz.visibleLevels - 1) :
                                 vizData[j + 1].name = viz.xDomain[k]}))
  /\ UNCHANGED <<pageVars, handlers>>

\* a finger is put on the chart: ev.touches[0] is the oldest touch
TouchStart ==
  /\ viz.constructed
  /\ \E id \in 1..MaxTouches, clientX \in ClientXs :
       /\ ~IsIn(handlers.touches, id)
       /\ handlers' = [handlers EXCEPT
                         !.touches = Append(@, id),
                         !.activeTouchId = Some(Append(handlers.touches, id)[1])]
       /\ viz' = startPress(viz, clientX)
  /\ UNCHANGED pageVars

\* a finger moves on the chart
TouchMove ==
  /\ viz.constructed
  /\ handlers.touches # <<>>
  /\ \E clientX \in ClientXs : viz' = touchmove(viz, handlers, vizData, clientX)
  /\ UNCHANGED <<pageVars, handlers>>

LiftTouch(h, id) ==
  [h EXCEPT !.touches = SelectSeq(@, LAMBDA x : x # id), !.activeTouchId = null]

\* a finger leaves the chart
TouchEnd ==
  /\ viz.constructed
  /\ \E k \in 1..Len(handlers.touches) :
       handlers' = LiftTouch(handlers, handlers.touches[k])
  /\ viz' = endPress(viz)
  /\ UNCHANGED pageVars

\* the browser takes a touch away
TouchCancel ==
  /\ viz.constructed
  /\ \E k \in 1..Len(handlers.touches) :
       handlers' = LiftTouch(handlers, handlers.touches[k])
  /\ viz' = endPress(viz)
  /\ UNCHANGED pageVars

MouseDown ==
  /\ viz.constructed
  /\ handlers' = [handlers EXCEPT !.mouseDown = TRUE]
  /\ \E clientX \in ClientXs : viz' = startPress(viz, clientX)
  /\ UNCHANGED pageVars

MouseMove ==
  /\ viz.constructed
  /\ \E clientX \in ClientXs :
       viz' = IF handlers.mouseDown THEN movePress(viz, vizData, clientX) ELSE viz
  /\ UNCHANGED <<pageVars, handlers>>

MouseUp ==
  /\ viz.constructed
  /\ handlers' = [handlers EXCEPT !.mouseDown = FALSE]
  /\ viz' = IF handlers.mouseDown THEN endPress(viz) ELSE viz
  /\ UNCHANGED pageVars

\* the long-press timeout runs
LongPressFires ==
  /\ viz.constructed
  /\ viz.longPressTimer = "pending"
  /\ viz' = longPress(viz, vizData)
  /\ UNCHANGED <<pageVars, handlers>>

\* the resize listener, for a window that is now narrow or not
resized(v, data, narrow) ==
  update([updateNavigationButtonsPosition([v EXCEPT !.isMobile = narrow])
            EXCEPT !.isResizing = TRUE],
         data)

KeepResizeTimeout(h) == h

\* if (resizeTimeout !== null) clearTimeout(resizeTimeout)
ClearResizeTimeout(h) ==
  IF h.resizeTimeout = "pending" THEN [h EXCEPT !.resizeTimers = @ - 1] ELSE h

\* resizeTimeout = window.setTimeout(...)
SetResizeTimeout(h) ==
  [h EXCEPT !.resizeTimeout = "pending", !.resizeTimers = @ + 1]

Resize ==
  /\ viz.constructed
  /\ \E narrow \in BOOLEAN :
       /\ viz' = resized(viz, vizData, narrow)
       /\ handlers' = [SetResizeTimeout(ClearResizeTimeout(handlers))
                         EXCEPT !.narrow = narrow]
  /\ UNCHANGED pageVars

\* a resize timeout runs: the one resizeTimeout holds when it is the only one
ResizeTimeoutFires ==
  /\ viz.constructed
  /\ handlers.resizeTimers > 0
  /\ viz' = [viz EXCEPT !.isResizing = FALSE]
  /\ handlers' = [handlers EXCEPT
                    !.resizeTimers = @ - 1,
                    !.resizeTimeout = IF handlers.resizeTimers = 1 THEN "stale" ELSE @]
  /\ UNCHANGED pageVars

\* the pages on which the visualization is followed: every section has a
\* difficulty line, two names
VizChoices ==
  {<<Heading(t), DiffPlain>> : t \in {<<"Level", " ", "X", " ", "-", " ", "Jane">>, <<"Beta">>}}

VizDocuments ==
  {<<Heading(<<"Beta">>), DiffPlain>> \o Concat(ss) :
     ss \in SeqsUpTo(VizChoices, MaxSections - 1)}

InitViz ==
  /\ source \in VizDocuments
  /\ appPresent = TRUE
  /\ pc = "init"
  /\ response = "none"
  /\ doc = <<>>
  /\ i = 0
  /\ levels = <<>>
  /\ levelSrc = <<>>
  /\ locals = NoLocals
  /\ error = null
  /\ fetches = 0
  /\ errors = 0
  /\ appView = "empty"
  /\ shownMessage = <<>>
  /\ vizData = <<>>
  /\ run = 1
  /\ prevLevels = null
  /\ other = NoCall
  /\ viz = NoViz
  /\ handlers = NoHandlers

NextViz ==
  \/ Next
  \/ GoForward
  \/ GoBack
  \/ ClickArea
  \/ ClickLabel
  \/ TouchStart
  \/ TouchMove
  \/ TouchEnd
  \/ TouchCancel
  \/ MouseDown
  \/ MouseMove
  \/ MouseUp
  \/ LongPressFires
  \/ Resize
  \/ ResizeTimeoutFires

SpecViz == InitViz /\ [][NextViz]_vars

\* the pages on which the resize timeout is followed: two sections
InitResize == InitViz /\ Len(h3Elements(source)) = 2

\* a timeout that is set and not cleared runs
SpecResize == InitResize /\ [][NextViz]_vars /\ WF_vars(ResizeTimeoutFires)

\* ------------------------------------------------------------------- claims
\* the headings whose pass of the loop has ended
PassedHeadings == 0..(i - 1)

\* the headings that yielded a record
RecordHeadings == {levelSrc[k] : k \in 1..Len(levelSrc)}

\* the text of element e has a "Difficulty value:" label
LabelIn(t) ==
  \E k \in 1..Len(t) : \E w \in (k + 2)..Len(t) :
     /\ toLowerCase(t[k]) = "difficulty"
     /\ toLowerCase(t[w]) = "value:"
     /\ \A x \in (k + 1)..(w - 1) : t[x] \in WhiteSpace

HasDifficultyLabel(e) == LabelIn(textContent(e))

AnyHasLabel(c) == \E k \in 1..Len(c) : HasDifficultyLabel(c[k])

SectionHasLabel(h) == AnyHasLabel(allContentOf(doc, h))

\* C1: a section whose content has no "Difficulty value:" line yields no
\* record: every record of the list comes from a heading whose section has
\* such a line, and the headings without one leave the list as it was.
C1_NoLineNoRecord ==
  /\ Len(levels) = Len(levelSrc)
  /\ \A h \in PassedHeadings : ~SectionHasLabel(h) => h \notin RecordHeadings

\* C1 witness: the call returned records, and passed a section without a line
C1_Witness ==
  /\ pc = "returned"
  /\ Len(levels) >= 1
  /\ \E h \in PassedHeadings : ~SectionHasLabel(h) /\ Len(allContentOf(doc, h)) >= 1

IsIncreasing(s) == \A a, b \in 1..Len(s) : a < b => s[a] < s[b]

\* C2: the records are in the order of their headings, and no heading yields
\* more than one record: the headings of the records, in list order, strictly
\* increase, and each record has the name and publisher of its heading.
C2_RecordOrder ==
  /\ Len(levels) = Len(levelSrc)
  /\ IsIncreasing(levelSrc)
  /\ \A k \in 1..Len(levelSrc) :
       /\ levelSrc[k] \in PassedHeadings
       /\ levels[k].name = SplitHeading(doc[h3Elements(doc)[levelSrc[k] + 1]]).name
       /\ levels[k].publisher = SplitHeading(doc[h3Elements(doc)[levelSrc[k] + 1]]).publisher

\* C2 witness: two records of different headings with different amounts of
\* content were returned
C2_Witness ==
  /\ pc = "returned"
  /\ Len(levels) = 2
  /\ levels[1].name # levels[2].name
  /\ Len(allContentOf(doc, levelSrc[1])) # Len(allContentOf(doc, levelSrc[2]))

\* N is well formed: digits, commas between digits of the integer part, and at
\* most one decimal point after a digit
IsWellFormedNumber(s) ==
  /\ s # <<>>
  /\ s[1] \in Digits
  /\ Cardinality({k \in 1..Len(s) : s[k] = "."}) <= 1
  /\ \A k \in 1..Len(s) :
       s[k] = "," => /\ k < Len(s)
                     /\ s[k - 1] \in Digits
                     /\ s[k + 1] \in Digits
                     /\ \A x \in 1..k : s[x] # "."

\* the number a well-formed N without commas denotes
NumberOf(s) ==
  IF \E k \in 1..Len(s) : s[k] = "."
  THEN LET dot == CHOOSE k \in 1..Len(s) : s[k] = "."
       IN  Num(DigitsToNat(SubSeq(s, 1, dot - 1)) * Pow10(Len(s) - dot)
                 + DigitsToNat(SubSeq(s, dot + 1, Len(s))),
               Len(s) - dot)
  ELSE Num(DigitsToNat(s), 0)

\* the N of the "Difficulty value: N" line of element e (empty when e has none)
LineNumberOf(e) ==
  IF difficultyMatch(textContent(e)).isNull THEN <<>>
  ELSE difficultyMatch(textContent(e)).val

\* the content elements of heading h that hold a well-formed line
WellFormedElements(h) ==
  {k \in 1..Len(allContentOf(doc, h)) :
     IsWellFormedNumber(LineNumberOf(allContentOf(doc, h)[k]))}

\* C3: for every section with a well-formed "Difficulty value: N" line, the
\* value of its record is the N of the first content element that holds such
\* a line, with the commas removed.
C3_ValueOfFirstWellFormedLine ==
  \A k \in 1..Len(levelSrc) :
     WellFormedElements(levelSrc[k]) # {} =>
       levels[k].difficulty =
         NumberOf(RemoveCommas(LineNumberOf(
           allContentOf(doc, levelSrc[k])[Min(WellFormedElements(levelSrc[k]))])))

\* the trimmed text of the heading of record k
HeadingTextOf(k) == trim(textContent(doc[h3Elements(doc)[levelSrc[k] + 1]]))

\* the positions in t of a separator: "by" or "-" in any letter case, between
\* white space
Separators(t) ==
  {j \in 2..(Len(t) - 1) :
     /\ toLowerCase(t[j]) \in {"by", "-"}
     /\ t[j - 1] \in WhiteSpace
     /\ t[j + 1] \in WhiteSpace}

\* C4: the heading text is split at its first separator " by " or " - " into
\* name and author, each trimmed; a heading without separator gives its full
\* trimmed text as name and the empty string as author.
C4_HeadingSplit ==
  \A k \in 1..Len(levelSrc) :
     IF Separators(HeadingTextOf(k)) = {}
     THEN /\ levels[k].name = HeadingTextOf(k)
          /\ levels[k].publisher = <<>>
     ELSE /\ levels[k].name =
               trim(SubSeq(HeadingTextOf(k), 1, Min(Separators(HeadingTextOf(k))) - 1))
          /\ levels[k].publisher =
               trim(SubSeq(HeadingTextOf(k), Min(Separators(HeadingTextOf(k))) + 1,
                           Len(HeadingTextOf(k))))

\* a pass of the loop has ended with levels.push: locals holds its values
PassPushed == pc = "loop" /\ i > 0 /\ locals.found

\* the category of a link: "youtube", "gdbrowser" or "none"
CategoryOf(link) ==
  IF IsYouTubeLink(link.href, LowerAll(textContent(link))) THEN "youtube"
  ELSE IF IsGDBrowserLink(link.href, LowerAll(textContent(link))) THEN "gdbrowser"
  ELSE "none"

\* the links of category cat in the content elements from..to of the section
LinksOfCategory(allContent, from, to, cat) ==
  {l \in UNION {{querySelectorAllA(allContent[e])[x] :
                   x \in 1..Len(querySelectorAllA(allContent[e]))} : e \in from..to} :
     CategoryOf(l) = cat}

\* C5: for every section that yields a record, a category link in the content
\* element of the difficulty line is not in the commentary (its markup is there
\* only when a later element holds the same markup), and every link of the same
\* category in a later content element is in the commentary verbatim.
C5_OnlyCoLocatedLinksRemoved ==
  PassPushed =>
    \A cat \in {"youtube", "gdbrowser"} :
      \A l \in LinksOfCategory(locals.allContent, locals.difficultyElementIndex + 1,
                               locals.difficultyElementIndex + 1, cat) :
        /\ IsSubSeq(outerHTML(l), locals.commentaryHTML) =>
             \E l2 \in LinksOfCategory(locals.allContent, locals.difficultyElementIndex + 2,
                                       Len(locals.allContent), cat) :
                outerHTML(l2) = outerHTML(l)
        /\ \A l2 \in LinksOfCategory(locals.allContent, locals.difficultyElementIndex + 2,
                                     Len(locals.allContent), cat) :
             IsSubSeq(outerHTML(l2), locals.commentaryHTML)

\* the identifiers of the items of the document's footnote container
FootnoteItemIds ==
  {ItemsOf(footnotesSectionOf(doc))[k].id : k \in 1..Len(ItemsOf(footnotesSectionOf(doc)))}

\* an anchor whose href is #id, id the identifier of a footnote item
IsFootnoteReference(n) ==
  /\ n.tag = "A"
  /\ startsWith(n.href, <<"#">>)
  /\ Tail(n.href) \in FootnoteItemIds

\* n with every such anchor below it replaced by the anchor's text
RECURSIVE ReferencesAsText(_)
ReferencesAsText(n) ==
  [n EXCEPT !.kids =
     [k \in 1..Len(n.kids) |->
        IF IsFootnoteReference(n.kids[k]) THEN Text(textContent(n.kids[k]))
        ELSE ReferencesAsText(n.kids[k])]]

\* C6: every anchor of a kept commentary element whose href is #id, id being
\* the identifier of an item of the footnote container, is written in the
\* serialized commentary as plain text equal to the anchor's text.
C6_ReferencesBecomeText ==
  PassPushed =>
    \A k \in 1..Len(locals.kept) :
       /\ k <= Len(locals.commentaryElements)
       /\ outerHTML(locals.commentaryElements[k]) = outerHTML(ReferencesAsText(locals.kept[k]))
       /\ IsSubSeq(outerHTML(ReferencesAsText(locals.kept[k])), locals.commentaryHTML)

\* the footnote references of the kept commentary elements, in document order
KeptReferences ==
  Concat([k \in 1..Len(locals.kept) |->
            SelectSeq(Descendants(locals.kept[k]), IsFootnoteReference)])

\* the identifiers of the referenced footnotes, each once, in the order of
\* their first reference
KnownReferencedIds == Distinct(RefIdsOf(KeptReferences))

\* what the claim appends to the commentary: nothing, or the ordered list with
\* one item per referenced footnote
ExpectedFootnoteList ==
  IF KnownReferencedIds = <<>> THEN <<>>
  ELSE outerHTML(footnotesWrapperOf(KnownReferencedIds, footnoteMapOf(doc)))

\* C7: when the commentary references known footnotes, it ends with an ordered
\* list of one item per distinct referenced footnote, in the order of first
\* reference, each with the stripped body of its footnote and the trailing
\* integer of its identifier as value; otherwise nothing is appended.
C7_FootnoteListAppended ==
  PassPushed =>
    locals.commentaryHTML =
      MarkupOf(SubSeq(locals.commentaryElements, 1, Len(locals.kept)))
        \o ExpectedFootnoteList

CallThrew == ~error.isNull /\ fetches > 0

\* C9 as stated: fetchAndParseLevelData signals an error only when the fetch
\* returned a status that is not a success.
C9_ErrorOnlyOnStatus == CallThrew => response = "notok"

\* C9 as amended: fetchAndParseLevelData signals an error only when the fetch
\* failed (it rejected, it returned a status that is not a success, or the body
\* could not be read); once the body is read, whatever the document, no error
\* is signalled and the call ends by returning a list: in the loop either the
\* body has a result for the next heading or the end is reached, and each step
\* either returns or moves to the next heading, of which there are finitely
\* many.
C9_ErrorOnlyOnFailedFetch ==
  /\ [](CallThrew => response \in {"notok", "rejected", "unreadable"})
  /\ [](pc \in {"loop", "returned"} =>
         /\ error.isNull
         /\ response = "ok"
         /\ i <= Len(h3Elements(doc))
         /\ Len(levels) <= i)
  /\ [](pc = "loop" =>
         IF i < Len(h3Elements(doc))
         THEN LoopBody(doc, i).found \in BOOLEAN
         ELSE i = Len(h3Elements(doc)))
  /\ [][pc = "loop" => \/ pc' = "returned" /\ levels' = levels
                       \/ pc' = "loop" /\ i' = i + 1]_vars

\* C9 witness: a document with headings was read to its end without a record:
\* every section was skipped and the empty list returned
C9_Witness ==
  /\ pc = "returned"
  /\ response = "ok"
  /\ i >= 1
  /\ levels = <<>>

\* C10: after a status that is not a success, nothing was parsed, one error
\* with the status text was raised after one fetch, no list is returned, and
\* init shows the message of that error and constructs no visualization.
C10_AbortOnStatus ==
  response = "notok" =>
    /\ pc \in {"thrown", "done"}
    /\ doc = <<>> /\ i = 0 /\ levels = <<>>
    /\ fetches = 1
    /\ errors = 1
    /\ \E statusText \in StatusTexts :
         error = Some(<<"Failed to fetch blog post: ">> \o statusText)
    /\ vizData = <<>>
    /\ pc = "thrown" => appView = "empty"
    /\ pc = "done" => appView = "error" /\ shownMessage = error.val

\* C10 witness: init has ended after such a status
C10_Witness == response = "notok" /\ pc = "done" /\ source # <<>>

\* the content of the section of record k
ContentOf(k) == allContentOf(doc, levelSrc[k])

\* the links of category cat anywhere in the content c
SectionLinks(c, cat) == LinksOfCategory(c, 1, Len(c), cat)

\* the section of heading h has a difficulty value: an element whose text has
\* the label followed by number characters
AnyHasValue(c) == \E e \in 1..Len(c) : ~difficultyMatch(textContent(c[e])).isNull

SectionHasValue(h) == AnyHasValue(allContentOf(doc, h))

\* the content c has no commentary: every element after its first element
\* with the label is a difficulty line itself
NothingAfterValue(c) ==
  \E e \in 1..Len(c) :
     /\ labelMatch(textContent(c[e]))
     /\ \A x \in 1..(e - 1) : ~labelMatch(textContent(c[x]))
     /\ \A x \in (e + 1)..Len(c) : labelMatch(textContent(c[x]))

\* the record r of a section with heading text h and content c has the empty
\* value of every field its section lacks
Degrades(r, h, c) ==
  /\ Separators(h) = {} => r.publisher = <<>>
  /\ SectionLinks(c, "youtube") = {} => r.youtubeUrl = null
  /\ SectionLinks(c, "gdbrowser") = {} => r.gdBrowserUrl = null
  /\ NothingAfterValue(c) => r.commentary = <<>>

\* C11: a section with a difficulty value yields a record whatever else it
\* lacks, and no error is raised: without attribution in the heading the
\* author is the empty string, without link of a category the URL of that
\* category is null, without content after the difficulty line the commentary
\* is the empty string.
C11_MissingFieldsDegrade ==
  /\ pc \in {"loop", "returned"} => error.isNull
  /\ \A h \in PassedHeadings : SectionHasValue(h) => h \in RecordHeadings
  /\ \A k \in 1..Len(levelSrc) : Degrades(levels[k], HeadingTextOf(k), ContentOf(k))

\* C11 witness: a record was returned for a section that has a value and
\* nothing else: no attribution, no link, no commentary
C11_Witness ==
  /\ pc = "returned"
  /\ \E k \in 1..Len(levels) :
       /\ Separators(HeadingTextOf(k)) = {}
       /\ SectionLinks(ContentOf(k), "youtube") = {}
       /\ SectionLinks(ContentOf(k), "gdbrowser") = {}
       /\ NothingAfterValue(ContentOf(k))
       /\ levels[k].publisher = <<>>
       /\ levels[k].youtubeUrl = null
       /\ levels[k].commentary = <<>>

\* C12: every record of the list has a non-empty name.
C12_NameNonEmpty == \A k \in 1..Len(levels) : levels[k].name # <<>>

\* C13: the value of every record of the list is a number: none is NaN.
C13_ValueIsNumber == \A k \in 1..Len(levels) : ~levels[k].difficulty.nan

\* the element e holds a category link
HasCategoryLink(e) ==
  \E x \in 1..Len(querySelectorAllA(e)) : CategoryOf(querySelectorAllA(e)[x]) # "none"

FirstOr(S, default) == IF S = {} THEN default ELSE Min(S)

\* the content element at which the link scan stops: the first one that holds
\* a category link, the last one when there is none
ScanStop(c) == FirstOr({e \in 1..Len(c) : HasCategoryLink(c[e])}, Len(c))

\* the links scanned, in document order
ScannedLinks(c) == Concat([e \in 1..ScanStop(c) |-> querySelectorAllA(c[e])])

\* the URL of the first link of category cat in the list, null without one
FirstUrl(links, cat) ==
  IF \E x \in 1..Len(links) : CategoryOf(links[x]) = cat
  THEN Some(links[Min({x \in 1..Len(links) : CategoryOf(links[x]) = cat})].href)
  ELSE null

\* C14: for each link category, the URL of the record is the URL of the first
\* link of that category, in document order, among the links scanned.
C14_FirstMatchWins ==
  PassPushed =>
    /\ locals.youtubeUrl = FirstUrl(ScannedLinks(locals.allContent), "youtube")
    /\ locals.gdBrowserUrl = FirstUrl(ScannedLinks(locals.allContent), "gdbrowser")

\* the positions of the document that belong to the section of the heading at
\* position p: the elements after p with no heading between p and them
SectionPositions(d, p) ==
  {q \in (p + 1)..Len(d) :
     /\ IsElement(d[q])
     /\ \A r \in (p + 1)..q : ~IsHeadingTag(d[r].tag)}

IsAtSectionPosition(d, p, q) == q \in SectionPositions(d, p)

\* the elements at those positions, in document order
SectionElements(d, p) ==
  LET inSection(q) == IsAtSectionPosition(d, p, q)
  IN  [k \in 1..Cardinality(SectionPositions(d, p)) |->
         d[SelectSeq([q \in 1..Len(d) |-> q], inSection)[k]]]

\* the element e is a heading or has a heading below it
HoldsHeading(e) ==
  \/ IsHeadingTag(e.tag)
  \/ \E x \in 1..Len(Descendants(e)) : IsHeadingTag(Descendants(e)[x].tag)

\* C15: the content of the section of every heading is what lies between the
\* heading and the next heading of any level, so that no element is in two
\* sections, and it holds no heading.
C15_SectionBoundaries ==
  \A h \in PassedHeadings :
     /\ allContentOf(doc, h) = SectionElements(doc, h3Elements(doc)[h + 1])
     /\ \A g \in PassedHeadings :
          g # h => SectionPositions(doc, h3Elements(doc)[g + 1])
                     \cap SectionPositions(doc, h3Elements(doc)[h + 1]) = {}
     /\ \A e \in 1..Len(allContentOf(doc, h)) : ~HoldsHeading(allContentOf(doc, h)[e])

\* the URLs of the links of category cat in the element at position s of the
\* content c
UrlsAt(c, s, cat) == {l.href : l \in LinksOfCategory(c, s, s, cat)}

\* url is one of urls, or null when there is none
IsOneOf(url, urls) == IF urls = {} THEN url = null ELSE url.val \in urls

\* both URLs of the locals l come from the element at position s
UrlsComeFrom(l, s) ==
  /\ IsOneOf(l.youtubeUrl, UrlsAt(l.allContent, s, "youtube"))
  /\ IsOneOf(l.gdBrowserUrl, UrlsAt(l.allContent, s, "gdbrowser"))

\* C16: both URLs of a record come from the first content element that holds
\* a category link: a category without link in that element has the URL
\* null, whatever the later elements hold.
C16_ScanStopsAtFirstLinkElement ==
  PassPushed => UrlsComeFrom(locals, ScanStop(locals.allContent))

\* C16 witness: the scan stopped at an element with only a GDBrowser link, and
\* the YouTube link of a later element was not recorded
C16_Witness ==
  /\ PassPushed
  /\ ScanStop(locals.allContent) < Len(locals.allContent)
  /\ UrlsAt(locals.allContent, ScanStop(locals.allContent), "youtube") = {}
  /\ LinksOfCategory(locals.allContent, ScanStop(locals.allContent) + 1,
                     Len(locals.allContent), "youtube") # {}
  /\ locals.youtubeUrl = null
  /\ ~locals.gdBrowserUrl.isNull

\* the URLs of the category links of the element of the difficulty value
CoLocatedUrls ==
  {l.href : l \in LinksOfCategory(locals.allContent, locals.difficultyElementIndex + 1,
                                  locals.difficultyElementIndex + 1, "youtube")
                  \cup LinksOfCategory(locals.allContent, locals.difficultyElementIndex + 1,
                                       locals.difficultyElementIndex + 1, "gdbrowser")}

\* the content elements of which a clone is kept in the commentary
KeptSources ==
  {e \in (locals.commentaryStartIndex + 1)..Len(locals.allContent) :
     CommentaryClone(locals.allContent[e], locals.excludedHrefs) # <<>>}

\* C17: every anchor of a kept commentary element is in the commentary
\* unchanged, except the anchors with the URL of a category link that is in
\* the element of the difficulty value, and the footnote references.
C17_OtherAnchorsUnchanged ==
  PassPushed =>
    \A e \in KeptSources :
      \A x \in 1..Len(querySelectorAllA(locals.allContent[e])) :
         \/ querySelectorAllA(locals.allContent[e])[x].href \in CoLocatedUrls
         \/ startsWith(querySelectorAllA(locals.allContent[e])[x].href, <<"#">>)
         \/ IsSubSeq(outerHTML(querySelectorAllA(locals.allContent[e])[x]),
                     locals.commentaryHTML)

\* the content elements, from the element of the value on, that hold a
\* category link
LinkElementsFromValue ==
  {e \in (locals.difficultyElementIndex + 1)..Len(locals.allContent) :
     LinksOfCategory(locals.allContent, e, e, "youtube")
       \cup LinksOfCategory(locals.allContent, e, e, "gdbrowser") # {}}

\* C18: the commentary starts directly after the element of the value, or,
\* when an element at or after it holds a category link, directly after the
\* first such element; so it starts after the element of the value.
C18_CommentaryStart ==
  PassPushed =>
    /\ locals.commentaryStartIndex > locals.difficultyElementIndex
    /\ locals.commentaryStartIndex =
         IF LinkElementsFromValue = {} THEN locals.difficultyElementIndex + 1
         ELSE Min(LinkElementsFromValue)

\* what the claim keeps of the content element x: nothing when its trimmed
\* text has the label, else its clone without the excluded links when that
\* clone has text or an image, a quotation or a list
ExpectedClone(x) ==
  IF labelMatch(trim(textContent(x))) THEN <<>>
  ELSE KeepIfContent(RemoveExcludedLinks(x, locals.excludedHrefs))

\* C19: the kept commentary elements are, in the order of the content, the
\* clones without excluded links of the elements from the commentary start
\* on whose text has no label and that, as clones, have non-white-space text
\* or an img, blockquote, ul or ol; they are serialized in that order.
C19_KeepRule ==
  PassPushed =>
    /\ locals.kept =
         Concat([e \in 1..(Len(locals.allContent) - locals.commentaryStartIndex) |->
                   ExpectedClone(locals.allContent[locals.commentaryStartIndex + e])])
    /\ Len(locals.commentaryElements) >= Len(locals.kept)
    /\ locals.commentaryHTML = MarkupOf(locals.commentaryElements)

\* the anchors of the kept commentary elements whose href is #id, id not being
\* the identifier of a footnote item
UnknownReferences ==
  {a \in UNION {{Descendants(locals.kept[k])[x] : x \in 1..Len(Descendants(locals.kept[k]))} :
                  k \in 1..Len(locals.kept)} :
     /\ a.tag = "A"
     /\ startsWith(a.href, <<"#">>)
     /\ Tail(a.href) \notin FootnoteItemIds}

\* C20: an anchor of the commentary whose href is #id, id not being the
\* identifier of a footnote item, stays a link in the commentary, and the
\* footnote list gets no entry for it.
C20_UnknownReferenceStaysLink ==
  PassPushed =>
    \A a \in UnknownReferences :
       /\ IsSubSeq(outerHTML(a), locals.commentaryHTML)
       /\ \A x \in 1..Len(locals.referencedFootnoteIds) :
            locals.referencedFootnoteIds[x] # Tail(a.href)

\* a call that returned holds the list the loop leaves for its own document
ReturnedAlone(position, document, list) ==
  position \in {"returned", "done"} => list = LoopFrom(document, 0, <<>>)

RecordAlone(d, h) == LevelOf(LoopBody(d, h))

\* the pass for heading h removes a link from a clone
RemovesLink(l) ==
  CollectCommentary(l.allContent, l.commentaryStartIndex, l.excludedHrefs)
    # CollectCommentary(l.allContent, l.commentaryStartIndex, {})

SameAsPlain(l, plain) == l.found = plain.found /\ LevelOf(l) = LevelOf(plain)

\* C23: footnote resolution is a pure extension: after a pass whose commentary
\* has no anchor to the identifier of a footnote item, the record, or the
\* absence of a record, is the one of the parser without footnote resolution.
C23_PureExtension ==
  pc = "loop" /\ i > 0 /\ KeptReferences = <<>> =>
    SameAsPlain(locals, LoopBodyPlain(doc, i - 1))

\* v and w reveal and select the same
SameNavigation(v, w) ==
  v.visibleLevels = w.visibleLevels /\ v.selectedLevelIndex = w.selectedLevelIndex

\* C24: with the non-empty list init constructs the visualization with, the
\* revealed count stays between 1 and the number of records, whatever was
\* clicked, selected or resized; goForward with every record revealed and
\* goBack with one record revealed change neither the count nor the selection.
C24_RevealedCountInRange ==
  viz.constructed =>
    /\ Len(vizData) >= 1
    /\ 1 <= viz.visibleLevels /\ viz.visibleLevels <= Len(vizData)
    /\ viz.visibleLevels = Len(vizData) => SameNavigation(goForward(viz, vizData), viz)
    /\ viz.visibleLevels = 1 => SameNavigation(goBack(viz, vizData), viz)

\* C24 witness: every record of a list of several is revealed, an earlier
\* one is selected, and the window was resized
C24_Witness ==
  /\ viz.constructed
  /\ Len(vizData) >= 2
  /\ viz.visibleLevels = Len(vizData)
  /\ viz.selectedLevelIndex < viz.visibleLevels - 1
  /\ viz.isResizing

SelectionRevealed ==
  viz.constructed =>
    0 <= viz.selectedLevelIndex /\ viz.selectedLevelIndex < viz.visibleLevels

\* a step that changes the revealed count selects the last revealed record
RevealSelectsLast ==
  viz.constructed /\ viz'.visibleLevels # viz.visibleLevels =>
    viz'.selectedLevelIndex = viz'.visibleLevels - 1

\* C25: the selected record is always one of the revealed records, whatever
\* was clicked, pressed, dragged or resized, and every step that changes the
\* revealed count selects the last revealed record.
C25_SelectionRevealed == []SelectionRevealed /\ [][RevealSelectsLast]_vars

\* C25 witness: with several records revealed, a drag has selected the first
C25_Witness ==
  /\ viz.constructed
  /\ viz.isSelecting
  /\ viz.visibleLevels >= 2
  /\ viz.selectedLevelIndex = 0

\* C26: the details panel renders the selected record: after every event and
\* every render the record of the panel is data[selectedLevelIndex].
C26_PanelShowsSelection ==
  viz.constructed =>
    /\ viz.panel = viz.selectedLevelIndex
    /\ viz.panel + 1 \in 1..Len(vizData)

\* C26 witness: a record other than the last revealed one was selected by a
\* click or a press, outside selection mode, and the panel renders it
C26_Witness ==
  /\ viz.constructed
  /\ ~viz.isSelecting
  /\ viz.selectedLevelIndex < viz.visibleLevels - 1
  /\ viz.panel = viz.selectedLevelIndex

SameDisabled(v, w) ==
  v.backDisabled = w.backDisabled /\ v.forwardDisabled = w.forwardDisabled

\* C27: Back is disabled exactly when at most one record is revealed, Forward
\* exactly when every record is revealed, the buttons look as they are, and
\* positioning the buttons again keeps their disabled state.
C27_ButtonsFollowCount ==
  viz.constructed =>
    /\ viz.backDisabled <=> viz.visibleLevels <= 1
    /\ viz.forwardDisabled <=> viz.visibleLevels >= Len(vizData)
    /\ viz.backDimmed = viz.backDisabled
    /\ viz.forwardDimmed = viz.forwardDisabled
    /\ SameDisabled(updateNavigationButtonsPosition(viz), viz)

\* C27 witness: after navigation to the last of several records and a resize
\* to a narrow window, Forward is disabled and Back is not
C27_Witness ==
  /\ viz.constructed
  /\ viz.isMobile
  /\ viz.isResizing
  /\ viz.visibleLevels >= 2
  /\ viz.forwardDisabled
  /\ ~viz.backDisabled

\* a touch is active or the mouse button is down
PressActive == ~handlers.activeTouchId.isNull \/ handlers.mouseDown

\* no selection mode, no selection line, no long-press timeout to run
SelectionIdle ==
  ~viz.isSelecting /\ ~viz.lineShown /\ viz.longPressTimer # "pending"

\* the step ends a press: the active touch or the mouse button is released
PressEnds ==
  \/ ~handlers.activeTouchId.isNull /\ handlers'.activeTouchId.isNull
  \/ handlers.mouseDown /\ ~handlers'.mouseDown

\* C28: selection mode is active only while a press is in progress: without
\* active touch and with the mouse button up there is no selection mode, no
\* selection line and no long-press timeout left to run, under every
\* interleaving of the touch and mouse events and the timeout; and every
\* event that ends a press leaves selection mode off and the line hidden.
C28_SelectingOnlyWhilePressed ==
  /\ [](viz.constructed /\ ~PressActive => SelectionIdle)
  /\ [][viz.constructed /\ PressEnds => SelectionIdle']_vars

\* C28 witness: selection mode is on while two touches are on the chart, the
\* mouse button being up
C28_Witness ==
  /\ viz.constructed
  /\ viz.isSelecting
  /\ viz.lineShown
  /\ ~handlers.mouseDown
  /\ Len(handlers.touches) = 2

\* the step is a move of the active touch while its long-press timeout has
\* not run
MoveBeforeLongPress ==
  /\ TouchMove
  /\ ~handlers.activeTouchId.isNull
  /\ viz.longPressTimer = "pending"

\* idx is a revealed record whose band centre is nearest to the chart
\* position x
IsNearestRevealed(v, data, idx, x) ==
  /\ idx \in 0..(v.visibleLevels - 1)
  /\ \A j \in 0..(v.visibleLevels - 1) :
       PointerDistance(v, data[idx + 1].name, x) <= PointerDistance(v, data[j + 1].name, x)

\* in selection mode a move to any position selects a nearest revealed record
MoveSelectsNearest ==
  viz.constructed /\ viz.isSelecting =>
    \A clientX \in ClientXs :
       IsNearestRevealed(viz, vizData,
                         movePress(viz, vizData, clientX).selectedLevelIndex,
                         clientXToChartX(viz, clientX))

\* C29: a touch that moves before its long-press timeout has run cancels the
\* timeout, leaves selection mode off and the selection as it was; selection
\* mode is only entered by a timeout that was still to run; and in selection
\* mode every move selects the revealed record nearest to the pointer.
C29_MoveCancelsLongPress ==
  /\ [][MoveBeforeLongPress =>
         /\ viz'.longPressTimer = "null"
         /\ ~viz'.isSelecting
         /\ viz'.selectedLevelIndex = viz.selectedLevelIndex]_vars
  /\ [][~viz.isSelecting /\ viz'.isSelecting => viz.longPressTimer = "pending"]_vars
  /\ []MoveSelectsNearest

\* isResizing is true exactly while the one resize timeout is still to run
ResizingWhilePending ==
  viz.constructed =>
    /\ handlers.resizeTimers <= 1
    /\ viz.isResizing <=> handlers.resizeTimers = 1
    /\ handlers.resizeTimeout = "pending" <=> handlers.resizeTimers = 1

\* a resize event sets the flag, renders without transitions and leaves one
\* timeout to run
ResizeRestarts ==
  Resize => viz'.isResizing /\ ~viz'.animated /\ handlers'.resizeTimers = 1

\* a render by Forward or Back animates exactly when no resize is under way
NavigationAnimates ==
  viz.constructed /\ viz'.visibleLevels # viz.visibleLevels =>
    viz'.animated = ~viz.isResizing

\* C30: the resize debounce: isResizing is true exactly while a resize
\* timeout is still to run, and there is never more than one; every resize
\* event sets it, renders without transitions and restarts the timeout; the
\* timeout that is left eventually runs and sets isResizing to false, and a
\* render animates again once it is false.
C30_ResizeDebounce ==
  /\ []ResizingWhilePending
  /\ [][ResizeRestarts]_vars
  /\ [][NavigationAnimates]_vars
  /\ (viz.isResizing ~> ~viz.isResizing)

\* C30 witness: after two resize events in a row the timeout has run, and a
\* later Forward has rendered with transitions
C30_Witness ==
  /\ viz.constructed
  /\ handlers.resizeTimeout = "stale"
  /\ ~viz.isResizing
  /\ viz.animated
  /\ viz.visibleLevels >= 2

====
